---------------------------- MODULE Spec2Model ----------------------------
(***************************************************************************)
(* Model of usrp_echotimer_dual_cw_rcs.py: the GNU Radio top block of a    *)
(* dual-tone CW echo-ranging radar, its parameter setters, its main()      *)
(* start-up/shut-down sequence and its stream graph.                       *)
(*                                                                         *)
(* Numbers.  Python integers are kept as integers.  Values the program     *)
(* computes with true division ("/", float(...)) are kept as exact         *)
(* positive rationals, each a pair of bags of prime factors, so that       *)
(* products such as freq_res*3e8 (beyond 32 bits) stay representable.      *)
(* IEEE rounding of the quotients is not modelled.                         *)
(***************************************************************************)
EXTENDS Integers, Sequences, FiniteSets, Bags, TLC

VARIABLES
    tb,        \* the usrp_echotimer_dual_cw_rcs instance: attributes and blocks
    last,      \* most recent argument of each control-surface setter
    pc,        \* assignments still to run in the setter call in progress
    arg,       \* argument of the setter call in progress
    entry,     \* value of tb when the setter call in progress was entered
    obs,       \* what a second thread last read through the getters
    mpc,       \* the statement main() executes next
    exitHow,   \* how the process ended
    handler,   \* disposition of SIGINT and SIGTERM
    tripped,   \* signals caught whose Python handler has not run yet
    quitNow,   \* QApplication.quit() was called while the event loop ran
    emitted,   \* aboutToQuit was emitted
    connected, \* quitting() is connected to aboutToQuit
    calls,     \* the calls main() made on the flow graph, in order
    q,         \* frames held by each stream connection, oldest first
    produced,  \* frames emitted so far by each signal generator
    captured,  \* frames emitted by the transceiver, in order
    arrived    \* frames received by the peak detector, in order

objVars  == <<tb, last>>
concVars == <<pc, arg, entry, obs>>
mainVars == <<mpc, exitHow, handler, tripped, quitNow, emitted, connected, calls>>
flowVars == <<q, produced, captured, arrived>>
vars     == <<objVars, concVars, mainVars, flowVars>>

---------------------------------------------------------------------------
(* Exact positive rationals *)

RECURSIVE LeastDiv(_, _)
LeastDiv(n, p) ==
    IF n % p = 0 THEN p ELSE IF p * p > n THEN n ELSE LeastDiv(n, p + 1)

RECURSIVE Factor(_)
Factor(n) ==
    IF n = 1 THEN EmptyBag
    ELSE LET p == LeastDiv(n, 2) IN SetToBag({p}) (+) Factor(n \div p)

RECURSIVE Val(_)
Val(b) ==
    IF BagToSet(b) = {} THEN 1
    ELSE LET p == CHOOSE r \in BagToSet(b) : TRUE
         IN  p * Val(b (-) SetToBag({p}))

Norm(r) == [n |-> r.n (-) r.d, d |-> r.d (-) r.n]

\* float(i), i > 0
RI(i) == [n |-> Factor(i), d |-> EmptyBag]

\* a * b
RMul(a, b) == Norm([n |-> a.n (+) b.n, d |-> a.d (+) b.d])

\* a / b
RDiv(a, b) == Norm([n |-> a.n (+) b.d, d |-> a.d (+) b.n])

\* int(r): truncation
IntOf(r) == Val(r.n) \div Val(r.d)

\* a < b
RLess(a, b) == LET c == RDiv(a, b) IN Val(c.n) < Val(c.d)

\* the float literal 3e8
C3e8 == RI(300000000)

---------------------------------------------------------------------------
(* __init__: Variables *)

samp_rate0 == 14250000
packet_len0 == 2^21
freq_res0 == RDiv(RI(samp_rate0), RI(packet_len0))
freq0 == <<-3000000, 3000000>>
\* the float literal 2.4e9
center_freq0 == RMul(RI(24), RI(100000000))
v_res0 == RDiv(RDiv(RMul(freq_res0, C3e8), RI(2)), center_freq0)
time_res0 == RDiv(RI(packet_len0), RI(samp_rate0))
threshold0 == -200
samp_protect0 == RI(1)
range_time0 == 60
range_res0_no_half == RDiv(C3e8, RI(freq0[2] - freq0[1]))
range_res0 == RDiv(RDiv(C3e8, RI(2)), RI(freq0[2] - freq0[1]))
min_output_buffer0 == packet_len0 * 2
max_output_buffer0 == 0
gain_tx0 == 40
gain_rx0 == 10
delay_samp0 == RI(33)
decim_fac0 == 2^7
\* the float literal 0.5
amplitude0 == RDiv(RI(1), RI(2))

\* the literal passed to every set_min_output_buffer call of __init__
BlockMinOutputBuffer == 4194304

(* __init__: Blocks.  Each block is the record of the construction         *)
(* arguments and settings that the setters or the claims refer to.         *)

rational_resampler_ccc(interpolation, decimation) ==
    [interpolation |-> interpolation, decimation |-> decimation]

usrp_echotimer_cc(samp_rate, center_freq, num_delay_samps, gain_tx, gain_rx) ==
    [samp_rate |-> samp_rate, center_freq |-> center_freq,
     num_delay_samps |-> num_delay_samps,
     tx_gain |-> gain_tx, rx_gain |-> gain_rx]

ts_fft_cc(packet_len) ==
    [packet_len |-> packet_len, min_output_buffer |-> BlockMinOutputBuffer]

signal_generator_cw_c(packet_len, samp_rate, frequency, amplitude) ==
    [packet_len |-> packet_len, samp_rate |-> samp_rate,
     frequency |-> frequency, amplitude |-> amplitude,
     min_output_buffer |-> BlockMinOutputBuffer]

find_max_peak_c(samp_rate, threshold, samp_protect) ==
    [samp_rate |-> samp_rate, threshold |-> threshold,
     samp_protect |-> samp_protect]

tagged_stream_multiply_length(scalar) ==
    [scalar |-> scalar, min_output_buffer |-> BlockMinOutputBuffer]

\* multiply_conjugate_cc(1) and add_vcc(1)
sync_block == [min_output_buffer |-> BlockMinOutputBuffer]

Constructed ==
    [samp_rate |-> samp_rate0,
     packet_len |-> packet_len0,
     freq_res |-> freq_res0,
     freq |-> freq0,
     center_freq |-> center_freq0,
     v_res |-> v_res0,
     time_res |-> time_res0,
     threshold |-> threshold0,
     samp_protect |-> samp_protect0,
     range_time |-> range_time0,
     range_res |-> range_res0,
     min_output_buffer |-> min_output_buffer0,
     max_output_buffer |-> max_output_buffer0,
     gain_tx |-> gain_tx0,
     gain_rx |-> gain_rx0,
     delay_samp |-> delay_samp0,
     decim_fac |-> decim_fac0,
     amplitude |-> amplitude0,
     rational_resampler_xxx_0_0 |-> rational_resampler_ccc(1, decim_fac0),
     rational_resampler_xxx_0 |-> rational_resampler_ccc(1, decim_fac0),
     radar_usrp_echotimer_cc_0 |->
         usrp_echotimer_cc(samp_rate0, center_freq0, IntOf(delay_samp0),
                           gain_tx0, gain_rx0),
     radar_ts_fft_cc_0_0 |-> ts_fft_cc(packet_len0 \div decim_fac0),
     radar_ts_fft_cc_0 |-> ts_fft_cc(packet_len0 \div decim_fac0),
     radar_signal_generator_cw_c_0_0 |->
         signal_generator_cw_c(packet_len0, samp_rate0, freq0[2], amplitude0),
     radar_signal_generator_cw_c_0 |->
         signal_generator_cw_c(packet_len0, samp_rate0, freq0[1], amplitude0),
     radar_find_max_peak_c_0 |->
         find_max_peak_c(samp_rate0 \div decim_fac0, threshold0,
                         IntOf(samp_protect0)),
     blocks_tagged_stream_multiply_length_0_0 |->
         tagged_stream_multiply_length(RDiv(RI(1), RI(decim_fac0))),
     blocks_tagged_stream_multiply_length_0 |->
         tagged_stream_multiply_length(RDiv(RI(1), RI(decim_fac0))),
     blocks_multiply_conjugate_cc_1 |-> sync_block,
     blocks_multiply_conjugate_cc_0_0 |-> sync_block,
     blocks_multiply_conjugate_cc_0 |-> sync_block,
     blocks_add_xx_1 |-> sync_block]

---------------------------------------------------------------------------
(* Getters and setters.  A setter maps the instance before the call to     *)
(* the instance after it.                                                  *)

get_freq_res(self) == self.freq_res
get_v_res(self) == self.v_res
get_time_res(self) == self.time_res
get_range_res(self) == self.range_res
get_min_output_buffer(self) == self.min_output_buffer
get_threshold(self) == self.threshold
get_samp_protect(self) == self.samp_protect
get_gain_tx(self) == self.gain_tx
get_gain_rx(self) == self.gain_rx
get_delay_samp(self) == self.delay_samp
get_amplitude(self) == self.amplitude

set_v_res(self, v_res) == [self EXCEPT !.v_res = v_res]

set_time_res(self, time_res) == [self EXCEPT !.time_res = time_res]

set_range_res(self, range_res) == [self EXCEPT !.range_res = range_res]

set_min_output_buffer(self, min_output_buffer) ==
    [self EXCEPT !.min_output_buffer = min_output_buffer]

set_freq_res(self, freq_res) ==
    LET s1 == [self EXCEPT !.freq_res = freq_res]
    IN  set_v_res(s1, RDiv(RDiv(RMul(s1.freq_res, C3e8), RI(2)), s1.center_freq))

set_samp_rate_no_time_res(self, samp_rate) ==
    LET s1 == [self EXCEPT !.samp_rate = samp_rate]
    IN  set_freq_res(s1, RDiv(RI(s1.samp_rate), RI(s1.packet_len)))

set_samp_rate(self, samp_rate) ==
    LET s1 == [self EXCEPT !.samp_rate = samp_rate]
        s2 == set_freq_res(s1, RDiv(RI(s1.samp_rate), RI(s1.packet_len)))
    IN  set_time_res(s2, RDiv(RI(s2.packet_len), RI(s2.samp_rate)))

set_packet_len(self, packet_len) ==
    LET s1 == [self EXCEPT !.packet_len = packet_len]
        s2 == set_freq_res(s1, RDiv(RI(s1.samp_rate), RI(s1.packet_len)))
        s3 == set_min_output_buffer(s2, s2.packet_len * 2)
    IN  set_time_res(s3, RDiv(RI(s3.packet_len), RI(s3.samp_rate)))

set_freq(self, freq) ==
    LET s1 == [self EXCEPT !.freq = freq]
    IN  set_range_res(s1, RDiv(RDiv(C3e8, RI(2)), RI(s1.freq[2] - s1.freq[1])))

set_center_freq_stale_v_res(self, center_freq) ==
    [self EXCEPT !.center_freq = center_freq]

set_center_freq(self, center_freq) ==
    LET s1 == [self EXCEPT !.center_freq = center_freq]
    IN  set_v_res(s1, RDiv(RDiv(RMul(s1.freq_res, C3e8), RI(2)), s1.center_freq))

set_threshold(self, threshold) ==
    LET s1 == [self EXCEPT !.threshold = threshold]
    IN  [s1 EXCEPT !.radar_find_max_peak_c_0.threshold = s1.threshold]

set_samp_protect(self, samp_protect) ==
    LET s1 == [self EXCEPT !.samp_protect = samp_protect]
    IN  [s1 EXCEPT !.radar_find_max_peak_c_0.samp_protect =
                       IntOf(s1.samp_protect)]

set_gain_tx(self, gain_tx) ==
    LET s1 == [self EXCEPT !.gain_tx = gain_tx]
    IN  [s1 EXCEPT !.radar_usrp_echotimer_cc_0.tx_gain = s1.gain_tx]

set_gain_rx(self, gain_rx) ==
    LET s1 == [self EXCEPT !.gain_rx = gain_rx]
    IN  [s1 EXCEPT !.radar_usrp_echotimer_cc_0.rx_gain = s1.gain_rx]

set_delay_samp_attribute_only(self, delay_samp) ==
    [self EXCEPT !.delay_samp = delay_samp]

set_delay_samp(self, delay_samp) ==
    LET s1 == [self EXCEPT !.delay_samp = delay_samp]
    IN  [s1 EXCEPT !.radar_usrp_echotimer_cc_0.num_delay_samps =
                       IntOf(s1.delay_samp)]

set_decim_fac(self, decim_fac) ==
    LET s1 == [self EXCEPT !.decim_fac = decim_fac]
        s2 == [s1 EXCEPT !.blocks_tagged_stream_multiply_length_0.scalar =
                             RDiv(RI(1), RI(s1.decim_fac))]
    IN  [s2 EXCEPT !.blocks_tagged_stream_multiply_length_0_0.scalar =
                       RDiv(RI(1), RI(s2.decim_fac))]

set_amplitude(self, amplitude) == [self EXCEPT !.amplitude = amplitude]

---------------------------------------------------------------------------
(* Behaviour of the rate-changing blocks on one frame of L samples *)

\* samples a rational resampler emits for L input samples
resampler_output_length(block, L) ==
    (L * block.interpolation) \div block.decimation

\* value tagged_stream_multiply_length writes for a packet_len tag of L
multiply_length_tag(block, L) == IntOf(RMul(RI(L), block.scalar))

---------------------------------------------------------------------------
(* Initial state: the instance as constructed, main() about to start it *)

NoCall == [name |-> "none"]
NoObs == [taken |-> FALSE]

Signals == {"SIGINT", "SIGTERM"}

Generators ==
    {"radar_signal_generator_cw_c_0", "radar_signal_generator_cw_c_0_0"}

InitObj ==
    /\ tb = Constructed
    /\ last = [threshold |-> threshold0, samp_protect |-> samp_protect0,
               gain_tx |-> gain_tx0, gain_rx |-> gain_rx0,
               delay_samp |-> delay_samp0]

InitConc ==
    /\ pc = <<>>
    /\ arg = NoCall
    /\ entry = Constructed
    /\ obs = NoObs

---------------------------------------------------------------------------
(* Calls of the parameter setters on the constructed instance *)

SampRates == {14250000, 7125000, 10000000}
PacketLens == {2^20, 2^21, 2^22}
Freqs == {<<-3000000, 3000000>>, <<-1000000, 2000000>>}
\* 2.4e9 and 1.2e9
CenterFreqs == {RMul(RI(24), RI(100000000)), RMul(RI(12), RI(100000000))}
DecimFacs == {2^6, 2^7, 100}
\* 0.5 and 0.25
Amplitudes == {RDiv(RI(1), RI(2)), RDiv(RI(1), RI(4))}

SetSampRate ==
    /\ \E x \in SampRates : tb' = set_samp_rate(tb, x)
    /\ UNCHANGED <<last, concVars, mainVars, flowVars>>

SetPacketLen ==
    /\ \E x \in PacketLens : tb' = set_packet_len(tb, x)
    /\ UNCHANGED <<last, concVars, mainVars, flowVars>>

SetFreq ==
    /\ \E x \in Freqs : tb' = set_freq(tb, x)
    /\ UNCHANGED <<last, concVars, mainVars, flowVars>>

SetCenterFreq ==
    /\ \E x \in CenterFreqs : tb' = set_center_freq(tb, x)
    /\ UNCHANGED <<last, concVars, mainVars, flowVars>>

SetDecimFac ==
    /\ \E x \in DecimFacs : tb' = set_decim_fac(tb, x)
    /\ UNCHANGED <<last, concVars, mainVars, flowVars>>

SetAmplitude ==
    /\ \E x \in Amplitudes : tb' = set_amplitude(tb, x)
    /\ UNCHANGED <<last, concVars, mainVars, flowVars>>

---------------------------------------------------------------------------
(* A setter call run one assignment at a time, with a second thread        *)
(* reading through the getters.  Each label is the source line of the      *)
(* assignment.                                                             *)

Script ==
    [set_samp_rate   |-> <<"L196", "L213", "L234", "L240">>,
     set_packet_len  |-> <<"L204", "L213", "L234", "L272", "L240">>,
     set_center_freq |-> <<"L227", "L234">>]

ConcCalls ==
    {[name |-> "set_samp_rate", value |-> x] : x \in SampRates}
    \cup {[name |-> "set_packet_len", value |-> x] : x \in PacketLens}
    \cup {[name |-> "set_center_freq", value |-> x] : x \in CenterFreqs}

Exec(label, self, call) ==
    CASE label = "L196" -> [self EXCEPT !.samp_rate = call.value]
      [] label = "L204" -> [self EXCEPT !.packet_len = call.value]
      [] label = "L227" -> [self EXCEPT !.center_freq = call.value]
      [] label = "L213" ->
             [self EXCEPT !.freq_res =
                  RDiv(RI(self.samp_rate), RI(self.packet_len))]
      [] label = "L234" ->
             [self EXCEPT !.v_res =
                  RDiv(RDiv(RMul(self.freq_res, C3e8), RI(2)), self.center_freq)]
      [] label = "L240" ->
             [self EXCEPT !.time_res =
                  RDiv(RI(self.packet_len), RI(self.samp_rate))]
      [] label = "L272" ->
             [self EXCEPT !.min_output_buffer = self.packet_len * 2]

\* the instance after the whole call
Returned(call, self) ==
    CASE call.name = "set_samp_rate" -> set_samp_rate(self, call.value)
      [] call.name = "set_packet_len" -> set_packet_len(self, call.value)
      [] call.name = "set_center_freq" -> set_center_freq(self, call.value)
      [] OTHER -> self

ConcCall ==
    /\ pc = <<>>
    /\ \E call \in ConcCalls :
          /\ arg' = call
          /\ pc' = Script[call.name]
    /\ entry' = tb
    /\ obs' = NoObs
    /\ UNCHANGED <<objVars, mainVars, flowVars>>

ConcStep ==
    /\ pc # <<>>
    /\ tb' = Exec(Head(pc), tb, arg)
    /\ pc' = Tail(pc)
    /\ UNCHANGED <<last, arg, entry, obs, mainVars, flowVars>>

ConcRead ==
    /\ obs' = [taken |-> TRUE,
               freq_res |-> get_freq_res(tb),
               v_res |-> get_v_res(tb),
               time_res |-> get_time_res(tb)]
    /\ UNCHANGED <<objVars, pc, arg, entry, mainVars, flowVars>>

---------------------------------------------------------------------------
(* main(): start, handler installation, the Qt event loop, shut-down *)

InitMain ==
    /\ mpc = "L328"
    /\ exitHow = "none"
    /\ handler = [s \in Signals |-> "default"]
    /\ tripped = {}
    /\ quitNow = FALSE
    /\ emitted = FALSE
    /\ connected = FALSE
    /\ calls = <<>>

\* tb.start()
MainStart ==
    /\ mpc = "L328"
    /\ calls' = Append(calls, "start")
    /\ mpc' = "L330"
    /\ UNCHANGED <<objVars, concVars, exitHow, handler, tripped, quitNow,
                   emitted, connected, flowVars>>

\* tb.show()
MainShow ==
    /\ mpc = "L330"
    /\ mpc' = "L335"
    /\ UNCHANGED <<objVars, concVars, exitHow, handler, tripped, quitNow,
                   emitted, connected, calls, flowVars>>

\* signal.signal(SIGINT, sig_handler); signal.signal(SIGTERM, sig_handler)
MainSignal ==
    /\ \/ /\ mpc = "L335"
          /\ handler' = [handler EXCEPT !["SIGINT"] = "sig_handler"]
          /\ mpc' = "L336"
       \/ /\ mpc = "L336"
          /\ handler' = [handler EXCEPT !["SIGTERM"] = "sig_handler"]
          /\ mpc' = "L338"
    /\ UNCHANGED <<objVars, concVars, exitHow, tripped, quitNow, emitted,
                   connected, calls, flowVars>>

\* the 500 ms timer is created, started and connected
MainTimer ==
    /\ mpc = "L338"
    /\ mpc' = "L346"
    /\ UNCHANGED <<objVars, concVars, exitHow, handler, tripped, quitNow,
                   emitted, connected, calls, flowVars>>

\* qapp.aboutToQuit.connect(quitting), then qapp.exec_() is entered
MainConnect ==
    /\ mpc = "L346"
    /\ connected' = TRUE
    /\ mpc' = "L347"
    /\ UNCHANGED <<objVars, concVars, exitHow, handler, tripped, quitNow,
                   emitted, calls, flowVars>>

\* A signal arrives while its disposition is still the default one: SIGINT
\* raises KeyboardInterrupt out of main(), SIGTERM terminates the process.
SignalDefault ==
    /\ mpc # "exit"
    /\ \E s \in Signals :
          /\ handler[s] = "default"
          /\ exitHow' = IF s = "SIGINT" THEN "KeyboardInterrupt" ELSE "SIGTERM"
    /\ mpc' = "exit"
    /\ UNCHANGED <<objVars, concVars, handler, tripped, quitNow, emitted,
                   connected, calls, flowVars>>

\* A signal arrives after signal.signal installed sig_handler: it is noted
\* and sig_handler runs when the interpreter next executes Python code.
SignalCaught ==
    /\ mpc # "exit"
    /\ \E s \in Signals :
          /\ handler[s] = "sig_handler"
          /\ tripped' = tripped \cup {s}
    /\ UNCHANGED <<objVars, concVars, mpc, exitHow, handler, quitNow, emitted,
                   connected, calls, flowVars>>

\* sig_handler runs between two statements of main(): QApplication.quit()
\* with no event loop running has no effect.
sig_handler_before_exec ==
    /\ mpc \notin {"L347", "exit"}
    /\ tripped # {}
    /\ tripped' = {}
    /\ UNCHANGED <<objVars, concVars, mpc, exitHow, handler, quitNow, emitted,
                   connected, calls, flowVars>>

\* Python code run from the event loop first runs the pending sig_handler
PythonRuns ==
    /\ tripped' = {}
    /\ quitNow' = (quitNow \/ tripped # {})

\* the timer's timeout runs "lambda: None", which lets sig_handler run
TimerTimeout ==
    /\ mpc = "L347"
    /\ tripped # {}
    /\ PythonRuns
    /\ UNCHANGED <<objVars, concVars, mpc, exitHow, handler, emitted,
                   connected, calls, flowVars>>

\* the window is closed: closeEvent accepts, and the application quits
closeEvent ==
    /\ mpc = "L347"
    /\ ~quitNow
    /\ quitNow' = TRUE
    /\ UNCHANGED <<objVars, concVars, mpc, exitHow, handler, tripped, emitted,
                   connected, calls, flowVars>>

\* the event loop ends, aboutToQuit is emitted and runs quitting()
quitting ==
    /\ mpc = "L347"
    /\ quitNow
    /\ ~emitted
    /\ emitted' = TRUE
    /\ calls' = IF connected THEN calls \o <<"stop", "wait">> ELSE calls
    /\ UNCHANGED <<objVars, concVars, mpc, exitHow, handler, tripped, quitNow,
                   connected, flowVars>>

\* qapp.exec_() returns and main() with it
MainReturn ==
    /\ mpc = "L347"
    /\ emitted
    /\ mpc' = "exit"
    /\ exitHow' = "return"
    /\ UNCHANGED <<objVars, concVars, handler, tripped, quitNow, emitted,
                   connected, calls, flowVars>>

(* The sliders of the control surface, dispatched by the event loop *)

Thresholds == {-200, -100}
\* 1, 2 and 2.5
SampProtects == {RI(1), RI(2), RDiv(RI(5), RI(2))}
GainsTx == {40, 50}
GainsRx == {10, 20}
\* 33, 33.5 and 34
DelaySamps == {RI(33), RDiv(RI(67), RI(2)), RI(34)}

Dispatch ==
    /\ mpc = "L347"
    /\ ~quitNow
    /\ PythonRuns
    /\ UNCHANGED <<concVars, mpc, exitHow, handler, emitted, connected, calls,
                   flowVars>>

SliderThreshold ==
    /\ Dispatch
    /\ \E x \in Thresholds :
          /\ tb' = set_threshold(tb, x)
          /\ last' = [last EXCEPT !.threshold = x]

SliderSampProtect ==
    /\ Dispatch
    /\ \E x \in SampProtects :
          /\ tb' = set_samp_protect(tb, x)
          /\ last' = [last EXCEPT !.samp_protect = x]

SliderGainTx ==
    /\ Dispatch
    /\ \E x \in GainsTx :
          /\ tb' = set_gain_tx(tb, x)
          /\ last' = [last EXCEPT !.gain_tx = x]

SliderGainRx ==
    /\ Dispatch
    /\ \E x \in GainsRx :
          /\ tb' = set_gain_rx(tb, x)
          /\ last' = [last EXCEPT !.gain_rx = x]

SliderDelaySamp ==
    /\ Dispatch
    /\ \E x \in DelaySamps :
          /\ tb' = set_delay_samp(tb, x)
          /\ last' = [last EXCEPT !.delay_samp = x]

---------------------------------------------------------------------------
(* The stream graph of __init__ (Connections), one frame at a time.  A     *)
(* frame is its sequence number.  A block runs when every input port holds *)
(* a frame and every connection it feeds has room: it takes one frame from *)
(* each input and puts one frame on each of its connections.               *)

\* frames a connection can hold
EdgeCap == 1
\* frames each signal generator emits
MaxFrames == 2

connect(src, sport, dst, dport) ==
    [src |-> src, sport |-> sport, dst |-> dst, dport |-> dport]

ConnectionsTransceiverToOneMixer ==
    {connect("blocks_add_xx_1", 0, "radar_usrp_echotimer_cc_0", 0),
     connect("blocks_multiply_conjugate_cc_0", 0, "rational_resampler_xxx_0", 0),
     connect("blocks_multiply_conjugate_cc_0_0", 0, "rational_resampler_xxx_0_0", 0),
     connect("blocks_multiply_conjugate_cc_1", 0, "radar_find_max_peak_c_0", 0),
     connect("blocks_tagged_stream_multiply_length_0", 0, "radar_ts_fft_cc_0", 0),
     connect("blocks_tagged_stream_multiply_length_0_0", 0, "radar_ts_fft_cc_0_0", 0),
     connect("radar_signal_generator_cw_c_0", 0, "blocks_add_xx_1", 0),
     connect("radar_signal_generator_cw_c_0", 0, "blocks_multiply_conjugate_cc_0", 1),
     connect("radar_signal_generator_cw_c_0_0", 0, "blocks_add_xx_1", 1),
     connect("radar_signal_generator_cw_c_0_0", 0, "blocks_multiply_conjugate_cc_0_0", 1),
     connect("radar_ts_fft_cc_0", 0, "blocks_multiply_conjugate_cc_1", 0),
     connect("radar_ts_fft_cc_0_0", 0, "blocks_multiply_conjugate_cc_1", 1),
     connect("radar_usrp_echotimer_cc_0", 0, "blocks_multiply_conjugate_cc_0", 0),
     connect("rational_resampler_xxx_0", 0, "blocks_tagged_stream_multiply_length_0", 0),
     connect("rational_resampler_xxx_0_0", 0, "blocks_tagged_stream_multiply_length_0_0", 0)}

Connections ==
    {connect("blocks_add_xx_1", 0, "radar_usrp_echotimer_cc_0", 0),
     connect("blocks_multiply_conjugate_cc_0", 0, "rational_resampler_xxx_0", 0),
     connect("blocks_multiply_conjugate_cc_0_0", 0, "rational_resampler_xxx_0_0", 0),
     connect("blocks_multiply_conjugate_cc_1", 0, "radar_find_max_peak_c_0", 0),
     connect("blocks_tagged_stream_multiply_length_0", 0, "radar_ts_fft_cc_0", 0),
     connect("blocks_tagged_stream_multiply_length_0_0", 0, "radar_ts_fft_cc_0_0", 0),
     connect("radar_signal_generator_cw_c_0", 0, "blocks_add_xx_1", 0),
     connect("radar_signal_generator_cw_c_0", 0, "blocks_multiply_conjugate_cc_0", 1),
     connect("radar_signal_generator_cw_c_0_0", 0, "blocks_add_xx_1", 1),
     connect("radar_signal_generator_cw_c_0_0", 0, "blocks_multiply_conjugate_cc_0_0", 1),
     connect("radar_ts_fft_cc_0", 0, "blocks_multiply_conjugate_cc_1", 0),
     connect("radar_ts_fft_cc_0_0", 0, "blocks_multiply_conjugate_cc_1", 1),
     connect("radar_usrp_echotimer_cc_0", 0, "blocks_multiply_conjugate_cc_0", 0),
     connect("radar_usrp_echotimer_cc_0", 0, "blocks_multiply_conjugate_cc_0_0", 0),
     connect("rational_resampler_xxx_0", 0, "blocks_tagged_stream_multiply_length_0", 0),
     connect("rational_resampler_xxx_0_0", 0, "blocks_tagged_stream_multiply_length_0_0", 0)}

\* the blocks that take part in the stream graph
StreamBlocks ==
    {"rational_resampler_xxx_0_0", "rational_resampler_xxx_0",
     "radar_usrp_echotimer_cc_0", "radar_ts_fft_cc_0_0", "radar_ts_fft_cc_0",
     "radar_signal_generator_cw_c_0_0", "radar_signal_generator_cw_c_0",
     "radar_find_max_peak_c_0",
     "blocks_tagged_stream_multiply_length_0_0",
     "blocks_tagged_stream_multiply_length_0",
     "blocks_multiply_conjugate_cc_1", "blocks_multiply_conjugate_cc_0_0",
     "blocks_multiply_conjugate_cc_0", "blocks_add_xx_1"}

\* stream input ports of a block
InPorts(b) ==
    IF b \in Generators THEN 0
    ELSE IF b \in {"blocks_add_xx_1", "blocks_multiply_conjugate_cc_1",
                   "blocks_multiply_conjugate_cc_0_0",
                   "blocks_multiply_conjugate_cc_0"} THEN 2
    ELSE 1

Ins(b) == {c \in Connections : c.dst = b}
Outs(b) == {c \in Connections : c.src = b}

InitFlow ==
    /\ q = [c \in Connections |-> <<>>]
    /\ produced = [g \in Generators |-> 0]
    /\ captured = <<>>
    /\ arrived = <<>>

CanFire(b) ==
    /\ \A p \in 0 .. (InPorts(b) - 1) :
          \E c \in Ins(b) : c.dport = p /\ q[c] # <<>>
    /\ \A c \in Outs(b) : Len(q[c]) < EdgeCap
    /\ b \in Generators => produced[b] < MaxFrames

Fire(b) ==
    /\ CanFire(b)
    /\ LET frame ==
             IF b \in Generators THEN produced[b] + 1
             ELSE Head(q[CHOOSE c \in Ins(b) : c.dport = 0])
       IN  /\ q' = [c \in Connections |->
                       IF c \in Ins(b) THEN Tail(q[c])
                       ELSE IF c \in Outs(b) THEN Append(q[c], frame)
                       ELSE q[c]]
           /\ produced' = IF b \in Generators
                          THEN [produced EXCEPT ![b] = frame]
                          ELSE produced
           /\ captured' = IF b = "radar_usrp_echotimer_cc_0"
                          THEN Append(captured, frame)
                          ELSE captured
           /\ arrived' = IF b = "radar_find_max_peak_c_0"
                         THEN Append(arrived, frame)
                         ELSE arrived
    /\ UNCHANGED <<objVars, concVars, mainVars>>

---------------------------------------------------------------------------
(* Specifications *)

Init == InitObj /\ InitConc /\ InitMain /\ InitFlow

\* setters called on the constructed instance, each call as a whole
Next ==
    \/ SetSampRate
    \/ SetPacketLen
    \/ SetFreq
    \/ SetCenterFreq
    \/ SetDecimFac
    \/ SetAmplitude

Spec == Init /\ [][Next]_vars

\* a setter call interleaved with a reading thread
NextConc == ConcCall \/ ConcStep \/ ConcRead

SpecConc == Init /\ [][NextConc]_vars

\* main() and the control surface
NextMain ==
    \/ MainStart
    \/ MainShow
    \/ MainSignal
    \/ MainTimer
    \/ MainConnect
    \/ SignalDefault
    \/ SignalCaught
    \/ sig_handler_before_exec
    \/ TimerTimeout
    \/ closeEvent
    \/ quitting
    \/ MainReturn
    \/ SliderThreshold
    \/ SliderSampProtect
    \/ SliderGainTx
    \/ SliderGainRx
    \/ SliderDelaySamp

SpecMain == Init /\ [][NextMain]_vars

\* the running event loop fires its timer, emits aboutToQuit and returns
SpecMainFair ==
    /\ SpecMain
    /\ WF_vars(TimerTimeout)
    /\ WF_vars(quitting)
    /\ WF_vars(MainReturn)

\* the stream graph, every block scheduled fairly
NextFlow == \E b \in StreamBlocks : Fire(b)

SpecFlow ==
    /\ Init
    /\ [][NextFlow]_vars
    /\ \A b \in StreamBlocks : WF_vars(Fire(b))

---------------------------------------------------------------------------
(* Properties *)

\* C1 (Spec): after any sequence of completed set_samp_rate, set_packet_len,
\* set_center_freq and set_freq calls the derived parameters agree with the
\* base parameters: freq_res = samp_rate/packet_len, time_res =
\* packet_len/samp_rate, v_res = freq_res*3e8/2/center_freq and
\* range_res = 3e8/2/(freq[1]-freq[0]).
C1_DerivedConsistent ==
    /\ tb.freq_res = RDiv(RI(tb.samp_rate), RI(tb.packet_len))
    /\ tb.time_res = RDiv(RI(tb.packet_len), RI(tb.samp_rate))
    /\ tb.v_res = RDiv(RDiv(RMul(tb.freq_res, C3e8), RI(2)), tb.center_freq)
    /\ tb.range_res = RDiv(RDiv(C3e8, RI(2)), RI(tb.freq[2] - tb.freq[1]))

\* every one of the four setters has changed its base parameter, and the
\* derived values are the new ones (range_res = 3e8/2/3e6 = 50,
\* time_res = 2^22/7125000)
C1_Witness ==
    /\ tb.samp_rate = 7125000
    /\ tb.packet_len = 2^22
    /\ tb.center_freq = RMul(RI(12), RI(100000000))
    /\ tb.freq = <<-1000000, 2000000>>
    /\ tb.range_res = RI(50)
    /\ tb.time_res = RDiv(RI(4194304), RI(7125000))
    /\ tb.freq_res # freq_res0
    /\ tb.v_res # v_res0

\* C2 (SpecConc): a thread that reads freq_res, v_res and time_res through
\* the getters while set_samp_rate, set_packet_len or set_center_freq is
\* between two of its assignments never sees one of them already at the
\* value the call leaves and another still at the value it had on entry.
C2_NoTornRead ==
    obs.taken =>
        LET after == Returned(arg, entry)
            fresh(d) == obs[d] = after[d] /\ after[d] # entry[d]
            stale(d) == obs[d] = entry[d] /\ entry[d] # after[d]
        IN  ~ \E d1, d2 \in {"freq_res", "v_res", "time_res"} :
                  fresh(d1) /\ stale(d2)

\* C3 (Spec): for frames of L = packet_len samples, each resampler emits
\* floor(L/decim_fac) samples, and that number is the packet_len tag the
\* length-scaling block writes and the frame size of the transform block.
C3_DecimatedLengthAgrees ==
    LET L == tb.packet_len
        branch(r, m, f) ==
            /\ resampler_output_length(tb[r], L) = L \div tb.decim_fac
            /\ multiply_length_tag(tb[m], L) = L \div tb.decim_fac
            /\ tb[f].packet_len = L \div tb.decim_fac
    IN  (/\ tb.radar_signal_generator_cw_c_0.packet_len = L
         /\ tb.radar_signal_generator_cw_c_0_0.packet_len = L)
        => /\ branch("rational_resampler_xxx_0",
                     "blocks_tagged_stream_multiply_length_0",
                     "radar_ts_fft_cc_0")
           /\ branch("rational_resampler_xxx_0_0",
                     "blocks_tagged_stream_multiply_length_0_0",
                     "radar_ts_fft_cc_0_0")

\* C4 (SpecMain): the transceiver's TX gain, RX gain and delay-sample count
\* and the peak detector's threshold and guard-sample count are the value
\* of the latest call of the matching setter (truncated to an integer for
\* delay_samp and samp_protect), which is also what the getter returns.
C4_SlidersLive ==
    /\ tb.radar_usrp_echotimer_cc_0.tx_gain = last.gain_tx
    /\ get_gain_tx(tb) = last.gain_tx
    /\ tb.radar_usrp_echotimer_cc_0.rx_gain = last.gain_rx
    /\ get_gain_rx(tb) = last.gain_rx
    /\ tb.radar_usrp_echotimer_cc_0.num_delay_samps = IntOf(last.delay_samp)
    /\ get_delay_samp(tb) = last.delay_samp
    /\ tb.radar_find_max_peak_c_0.threshold = last.threshold
    /\ get_threshold(tb) = last.threshold
    /\ tb.radar_find_max_peak_c_0.samp_protect = IntOf(last.samp_protect)
    /\ get_samp_protect(tb) = last.samp_protect

\* all five sliders were moved while the flow graph runs (started, never
\* stopped): delay 34 and guard 2.5 -> 2 reached the blocks
C4_Witness ==
    /\ calls = <<"start">>
    /\ mpc = "L347"
    /\ last.gain_tx = 50
    /\ last.gain_rx = 20
    /\ last.threshold = -100
    /\ last.delay_samp = RI(34)
    /\ tb.radar_usrp_echotimer_cc_0.num_delay_samps = 34
    /\ last.samp_protect = RDiv(RI(5), RI(2))
    /\ tb.radar_find_max_peak_c_0.samp_protect = 2
    /\ tb.radar_usrp_echotimer_cc_0.tx_gain = 50

\* C5 (Spec): the amplitude both CW signal generators use is the one last
\* given to set_amplitude.
C5_AmplitudeLive ==
    /\ tb.radar_signal_generator_cw_c_0.amplitude = get_amplitude(tb)
    /\ tb.radar_signal_generator_cw_c_0_0.amplitude = get_amplitude(tb)

\* C6 (Spec): a set_center_freq call leaves range_res, freq_res, time_res
\* and every base parameter but center_freq as they were, and the v_res
\* read after it is computed from the new center frequency.
C6_CenterFreqOnlyMovesVRes ==
    [][SetCenterFreq =>
          /\ get_range_res(tb') = get_range_res(tb)
          /\ get_freq_res(tb') = get_freq_res(tb)
          /\ get_time_res(tb') = get_time_res(tb)
          /\ tb'.samp_rate = tb.samp_rate
          /\ tb'.packet_len = tb.packet_len
          /\ tb'.freq = tb.freq
          /\ tb'.decim_fac = tb.decim_fac
          /\ tb'.amplitude = tb.amplitude
          /\ get_v_res(tb') =
                 RDiv(RDiv(RMul(tb.freq_res, C3e8), RI(2)), tb'.center_freq)]_vars

\* the center frequency went from 2.4e9 to 1.2e9: v_res doubled, range_res
\* is still 25
C6_Witness ==
    /\ tb.center_freq = RMul(RI(12), RI(100000000))
    /\ tb.freq_res = freq_res0
    /\ tb.v_res = RMul(RI(2), v_res0)
    /\ tb.range_res = RI(25)

\* C7 (Spec): with samp_rate = 14250000, packet_len = 2^21, decim_fac = 2^7,
\* freq = (-3000000, 3000000) and center_freq = 2.4e9, as the constructor
\* sets them, range_res is exactly 25 and 0.147 < time_res < 0.148.
C7_InitialResolutions ==
    (/\ tb.samp_rate = 14250000
     /\ tb.packet_len = 2^21
     /\ tb.decim_fac = 2^7
     /\ tb.freq = <<-3000000, 3000000>>
     /\ tb.center_freq = RMul(RI(24), RI(100000000)))
    => /\ tb.range_res = RI(25)
       /\ tb.time_res = RDiv(RI(2^21), RI(14250000))
       /\ RLess(RDiv(RI(147), RI(1000)), tb.time_res)
       /\ RLess(tb.time_res, RDiv(RI(148), RI(1000)))

\* the instance exactly as constructed
C7_Witness ==
    /\ tb = Constructed
    /\ tb.range_res = RI(25)
    /\ IntOf(RMul(RI(1000), tb.time_res)) = 147

\* the blocks on which __init__ sets a minimum output buffer
BuffersConfigured ==
    {"radar_ts_fft_cc_0_0", "radar_ts_fft_cc_0",
     "radar_signal_generator_cw_c_0_0", "radar_signal_generator_cw_c_0",
     "blocks_tagged_stream_multiply_length_0_0",
     "blocks_tagged_stream_multiply_length_0",
     "blocks_multiply_conjugate_cc_1", "blocks_multiply_conjugate_cc_0_0",
     "blocks_multiply_conjugate_cc_0", "blocks_add_xx_1"}

\* C9 (Spec): the minimum output buffer of each block that has one is at
\* least packet_len samples and equals the min_output_buffer parameter,
\* int(packet_len*2).
C9_MinOutputBuffer ==
    \A b \in BuffersConfigured :
        /\ tb[b].min_output_buffer >= tb.packet_len
        /\ tb[b].min_output_buffer = get_min_output_buffer(tb)
        /\ get_min_output_buffer(tb) = tb.packet_len * 2

\* C8 (SpecMain): once the flow graph is started, the process does not end
\* before main() has called stop() and then wait() on it.
C8_StopThenWaitBeforeExit ==
    (mpc = "exit" /\ calls # <<>>) => calls = <<"start", "stop", "wait">>

\* when main() ends by returning from qapp.exec_(), stop() and then wait()
\* were called
ReturnStopsThenWaits ==
    exitHow = "return" => calls = <<"start", "stop", "wait">>

\* a signal caught, or a quit requested, while qapp.exec_() runs leads to
\* main() returning (SpecMainFair)
QuitInLoopReturns ==
    (mpc = "L347" /\ (tripped # {} \/ quitNow)) ~> (exitHow = "return")

\* wait() is never called before stop()
WaitFollowsStop ==
    \A i \in 1 .. Len(calls) :
        calls[i] = "wait" => (i > 1 /\ calls[i - 1] = "stop")

\* a whole setter call leaves what its assignments, run one by one, leave
StepsMatchWholeCall == pc = <<>> => tb = Returned(arg, entry)


Frames(seq) == {seq[i] : i \in 1 .. Len(seq)}

\* no block can run only once every frame has reached the peak detector
NoStall ==
    (\A b \in StreamBlocks : ~CanFire(b))
        => arrived = [i \in 1 .. MaxFrames |-> i]

\* the peak detector has received the captured frames, each once, in
\* capture order
InCaptureOrder ==
    /\ Len(arrived) <= Len(captured)
    /\ \A i \in 1 .. Len(arrived) : arrived[i] = captured[i]
    /\ \A i \in 1 .. Len(captured) : captured[i] = i

====
